---- MODULE Spec2Model ----
(***************************************************************************)
(* Model of the patent document reader: the text cleaning and section      *)
(* splitting of DescriptionReaderSubAgent                                  *)
(* (src/agents/document_reader_agent/description_reader_subagent/agent.py) *)
(*                                                                         *)
(* A text is a sequence of tokens.  A token is one character (" ", "\n",   *)
(* ":", a digit, ...) or one case-insensitive word of the header patterns  *)
(* ("abstract", "claims", "background", ...).  "w" is one ordinary         *)
(* character and "long" a run of LongRun ordinary characters.  Positions   *)
(* are Python offsets: offset o lies between t[o] and t[o+1], and the      *)
(* slice text[a:b] is SubSeq(t, a+1, b).                                   *)
(***************************************************************************)
EXTENDS Integers, Sequences, FiniteSets, TLC

\* ------------------------------------------------------------------ bounds

\* Longest text (in tokens) the function specifications draw.
MaxLen == 4
\* Most lines of a drawn document.
MaxLines == 4
\* Number of ordinary characters the token "long" stands for.
LongRun == 499
\* Number of workflow invocations that run at the same time.
MaxInvocations == 2

\* --------------------------------------------------------- program values

\* The most digits int() converts: the interpreter's default
\* sys.get_int_max_str_digits().
MaxStrDigits == 4300
\* Number of digits "5" the token "digits" stands for.
DigitRun == MaxStrDigits + 1

\* Python's None.  Every text is a sequence, so None is a sequence that no
\* text can equal.
None == <<"<None>">>

\* "if potential_end - abstract_start < 500"
ParaLimit == 500

NL == "\n"
SP == " "
Whitespace == {SP, NL}
Punct == {":", "."}

NoMatch == -1

\* ------------------------------------------------------- string primitives

IsSpace(c) == c \in Whitespace

\* text[a:b]
Slice(t, a, b) == SubSeq(t, a + 1, b)

SetMin(S) == CHOOSE x \in S : \A y \in S : x <= y
SetMax(S) == CHOOSE x \in S : \A y \in S : x >= y

\* The leftmost, the rightmost of the offsets where a pattern matches; NoMatch
\* (the None of re.search) when it matches nowhere.
MinOrNoMatch(S) == IF S = {} THEN NoMatch ELSE SetMin(S)
MaxOrNoMatch(S) == IF S = {} THEN NoMatch ELSE SetMax(S)

\* The end of a match that tries one way first: a when that way matches,
\* else b.
OrElse(a, b) == IF a # NoMatch THEN a ELSE b

\* str.strip(): leading and trailing whitespace removed.
Strip(t) ==
  LET ink == {i \in 1..Len(t) : ~IsSpace(t[i])}
  IN IF ink = {} THEN <<>> ELSE SubSeq(t, SetMin(ink), SetMax(ink))

\* Number of characters of a token, of a text.
TokenLen(c) ==
  CASE c = "long" -> LongRun
    [] c = "digits" -> DigitRun
    [] c = "abstract" -> 8
    [] c = "claims" -> 6
    [] c = "claim" -> 5
    [] c = "claimed" -> 7
    [] c = "what" -> 4
    [] c = "is" -> 2
    [] c = "we" -> 2
    [] c = "of" -> 2
    [] c = "the" -> 3
    [] c = "disclosure" -> 10
    [] c = "invention" -> 9
    [] c = "description" -> 11
    [] c = "background" -> 10
    [] c = "summary" -> 7
    [] c = "detailed" -> 8
    [] c = "brief" -> 5
    [] OTHER -> 1

RECURSIVE CharLen(_)
CharLen(t) == IF t = <<>> THEN 0 ELSE TokenLen(Head(t)) + CharLen(Tail(t))

\* ------------------------------------------------------ regex primitives

\* "^" under re.MULTILINE at offset o.
AtLineStart(t, o) == o = 0 \/ t[o] = NL

\* "$" under re.MULTILINE at offset o.
AtLineEnd(t, o) == o = Len(t) \/ t[o + 1] = NL

\* Greedy "\s*" from offset o: the offset after the whitespace run.
SkipWs(t, o) ==
  LET ink == {i \in (o + 1)..Len(t) : ~IsSpace(t[i])}
  IN IF ink = {} THEN Len(t) ELSE SetMin(ink) - 1

\* "\s+" from offset o: the offset after the run, NoMatch without whitespace.
Ws1(t, o) ==
  IF o >= 0 /\ o < Len(t) /\ IsSpace(t[o + 1]) THEN SkipWs(t, o) ELSE NoMatch

\* "\s*$" from offset o: the match's end, the largest offset of the
\* whitespace run that is a line end; NoMatch when there is none.
WsDollar(t, o) ==
  IF o < 0 THEN NoMatch
  ELSE MaxOrNoMatch({e \in o..SkipWs(t, o) : AtLineEnd(t, e)})

\* A literal word at offset o: the offset after it, or NoMatch.
Word(t, o, ws) ==
  IF o >= 0 /\ o < Len(t) /\ t[o + 1] \in ws THEN o + 1 ELSE NoMatch

\* "\s*[:\.]?\s*$" from offset o.
PunctTail(t, o) ==
  IF o < 0 THEN NoMatch
  ELSE OrElse(WsDollar(t, Word(t, SkipWs(t, o), Punct)), WsDollar(t, o))

\* "\s*(is)?\s*[:\.]?\s*$" from offset o.
IsTail(t, o) ==
  IF o < 0 THEN NoMatch
  ELSE OrElse(PunctTail(t, Word(t, SkipWs(t, o), {"is"})), PunctTail(t, o))

\* The first of a sequence of alternatives' ends that matched.
FirstMatch(alts) ==
  LET hit == {i \in 1..Len(alts) : alts[i] # NoMatch}
  IN IF hit = {} THEN NoMatch ELSE alts[SetMin(hit)]

\* "\n".join(lines)
RECURSIVE JoinLines(_)
JoinLines(lines) ==
  IF Len(lines) = 0 THEN <<>>
  ELSE IF Len(lines) = 1 THEN lines[1]
  ELSE lines[1] \o <<NL>> \o JoinLines(Tail(lines))

\* sep.join(parts)
RECURSIVE JoinWith(_, _)
JoinWith(parts, sep) ==
  IF Len(parts) = 0 THEN <<>>
  ELSE IF Len(parts) = 1 THEN parts[1]
  ELSE parts[1] \o sep \o JoinWith(Tail(parts), sep)

\* text.split("\n"): the lines of a text, one more than its newlines.
RECURSIVE SplitLines(_)
SplitLines(t) ==
  LET nls == {i \in 1..Len(t) : t[i] = NL}
  IN IF nls = {} THEN <<t>>
     ELSE <<SubSeq(t, 1, SetMin(nls) - 1)>>
            \o SplitLines(SubSeq(t, SetMin(nls) + 1, Len(t)))

\* The offset after the first token of t, past offset from, that is in the
\* set stop, provided no token of the set bar comes before it; else NoMatch.
\* A lazy ".*?" before a literal: bar is {NL} for ".", {} under re.DOTALL.
LazyUpTo(t, from, stop, bar) ==
  LET hit == {i \in (from + 1)..Len(t) :
                /\ t[i] \in stop
                /\ \A j \in (from + 1)..(i - 1) : t[j] \notin bar}
  IN IF hit = {} THEN NoMatch ELSE SetMin(hit)

\* ----------------------------------------------------------------- cleaning

\* r"!\[.*?\]\(images/.*?\)" tried at the start of t: the match's end.
ImageLinkEnd(t) ==
  IF t = <<>> \/ t[1] # "![" THEN NoMatch
  ELSE LET mid == LazyUpTo(t, 1, {"](images/"}, {NL})
       IN IF mid = NoMatch THEN NoMatch ELSE LazyUpTo(t, mid, {")"}, {NL})

\* re.sub(r"!\[.*?\]\(images/.*?\)", "", text)
RECURSIVE RemoveImageLinks(_)
RemoveImageLinks(t) ==
  IF t = <<>> THEN <<>>
  ELSE IF ImageLinkEnd(t) # NoMatch
       THEN RemoveImageLinks(Slice(t, ImageLinkEnd(t), Len(t)))
       ELSE <<Head(t)>> \o RemoveImageLinks(Tail(t))

\* text.replace("#", "")
RemoveHash(t) == SelectSeq(t, LAMBDA c : c # "#")

\* "<t[dh][^>]*>" and "</t[dh]>"
CellOpen == {"<td>", "<th>"}
CellClose == {"</td>", "</th>"}

\* re.findall(open(.*?)close, t, re.DOTALL): the texts between each opening
\* tag and the nearest closing tag after it, left to right, not overlapping.
RECURSIVE FindAll(_, _, _)
FindAll(t, open, close) ==
  IF t = <<>> THEN <<>>
  ELSE LET end == IF t[1] \in open THEN LazyUpTo(t, 1, close, {}) ELSE NoMatch
       IN IF end # NoMatch
          THEN <<Slice(t, 1, end - 1)>>
                 \o FindAll(Slice(t, end, Len(t)), open, close)
          ELSE FindAll(Tail(t), open, close)

\* "| " + " | ".join(cells) + " |"
MdRow(cells) == <<"|", SP>> \o JoinWith(cells, <<SP, "|", SP>>) \o <<SP, "|">>

\* Mutant of RowCells: the cells are not stripped.
RowCellsUntrimmed(row) == FindAll(row, CellOpen, CellClose)

\* The cells of a row, each stripped.
RowCells(row) ==
  LET found == FindAll(row, CellOpen, CellClose)
  IN [i \in 1..Len(found) |-> Strip(found[i])]

\* convert_table(match): one markdown line per row, and after the first row
\* a separator line with one "---" per cell of that row.
ConvertTable(html) ==
  LET rows == FindAll(html, {"<tr>"}, {"</tr>"})
      first == RowCells(rows[1])
      md_rows == <<MdRow(first), MdRow([i \in 1..Len(first) |-> <<"---">>])>>
                   \o [i \in 1..(Len(rows) - 1) |-> MdRow(RowCells(rows[i + 1]))]
  IN IF rows = <<>> THEN <<>> ELSE JoinLines(md_rows)

\* Mutant of HtmlTablesToMarkdown: a table that is not closed runs to the
\* end of the text.
RECURSIVE HtmlTablesUnclosedToEnd(_)
HtmlTablesUnclosedToEnd(t) ==
  IF t = <<>> THEN <<>>
  ELSE IF t[1] # "<table>"
       THEN <<Head(t)>> \o HtmlTablesUnclosedToEnd(Tail(t))
       ELSE IF LazyUpTo(t, 1, {"</table>"}, {}) = NoMatch
            THEN ConvertTable(t)
            ELSE ConvertTable(Slice(t, 0, LazyUpTo(t, 1, {"</table>"}, {})))
                   \o HtmlTablesUnclosedToEnd(
                        Slice(t, LazyUpTo(t, 1, {"</table>"}, {}), Len(t)))

\* _html_tables_to_markdown(text):
\* re.sub(r"<table>.*?</table>", convert_table, text, flags=re.DOTALL)
RECURSIVE HtmlTablesToMarkdown(_)
HtmlTablesToMarkdown(t) ==
  IF t = <<>> THEN <<>>
  ELSE LET end == IF t[1] = "<table>"
                  THEN LazyUpTo(t, 1, {"</table>"}, {}) ELSE NoMatch
       IN IF end # NoMatch
          THEN ConvertTable(Slice(t, 0, end))
                 \o HtmlTablesToMarkdown(Slice(t, end, Len(t)))
          ELSE <<Head(t)>> \o HtmlTablesToMarkdown(Tail(t))

\* The characters "\d" matches, in the order of their values.
Digits == <<"0", "1", "2", "3", "4", "5", "6", "7", "8", "9">>
IsDigit(c) == c = "digits" \/ \E i \in 1..Len(Digits) : Digits[i] = c
DigitValue(c) == (CHOOSE i \in 1..Len(Digits) : Digits[i] = c) - 1

\* int(digits)
RECURSIVE IntOf(_)
IntOf(digits) ==
  IF digits = <<>> THEN 0
  ELSE 10 * IntOf(SubSeq(digits, 1, Len(digits) - 1))
         + DigitValue(digits[Len(digits)])

\* Greedy "\d*" from offset o: the offset after the digit run.
SkipDigits(t, o) ==
  LET other == {i \in (o + 1)..Len(t) : ~IsDigit(t[i])}
  IN IF other = {} THEN Len(t) ELSE SetMin(other) - 1

\* The loop body of _clean_text for one line: with a match of
\* "^(\s*)(\d+)(\s+)" whose number is a positive multiple of 5, the line from
\* the match's end on.
StripLineNumber(line) ==
  LET b == SkipWs(line, 0)
      e == SkipDigits(line, b)
      end == Ws1(line, e)
      num == IntOf(Slice(line, b, e))
  IN IF e > b /\ end # NoMatch /\ num > 0 /\ num % 5 = 0
     THEN Slice(line, end, Len(line))
     ELSE line

\* int(digits) raises ValueError: the string has more digits than int()
\* converts.
IntRaises(digits) == CharLen(digits) > MaxStrDigits

\* The loop body of _clean_text raises for the line: "^(\s*)(\d+)(\s+)"
\* matches and int(match.group(2)) raises.
LineRaises(line) ==
  /\ SkipDigits(line, SkipWs(line, 0)) > SkipWs(line, 0)
  /\ Ws1(line, SkipDigits(line, SkipWs(line, 0))) # NoMatch
  /\ IntRaises(Slice(line, SkipWs(line, 0),
                     SkipDigits(line, SkipWs(line, 0))))

\* The line loop of _clean_text raises for one of the lines.
LinesRaise(t) ==
  \E i \in 1..Len(SplitLines(t)) : LineRaises(SplitLines(t)[i])

\* The line loop of _clean_text: split, strip each line's number, join.
StripLineNumbers(t) ==
  LET lines == SplitLines(t)
  IN JoinLines([i \in 1..Len(lines) |-> StripLineNumber(lines[i])])

\* _clean_text(text)
CleanText(text) ==
  StripLineNumbers(HtmlTablesToMarkdown(RemoveHash(RemoveImageLinks(text))))

\* _clean_text(text) raises ValueError instead of returning.
CleanRaises(text) ==
  LinesRaise(HtmlTablesToMarkdown(RemoveHash(RemoveImageLinks(text))))

\* --------------------------------------------------------- header matchers

\* CLAIMS_HEADER_PATTERN tried at offset p: the match's end, or NoMatch.
\* The five alternatives in the pattern's order, each after "^\s*".
ClaimsHeaderAt(t, p) ==
  IF ~AtLineStart(t, p) THEN NoMatch
  ELSE LET q == SkipWs(t, p)
       IN FirstMatch(<<
            WsDollar(t, Word(t, q, {"claim", "claims"})),
            IsTail(t, Word(t, Ws1(t, Word(t, Ws1(t, Word(t, q, {"what"})),
                                          {"is"})), {"claimed"})),
            IsTail(t, Word(t, Ws1(t, Word(t, Ws1(t, Word(t, q, {"what"})),
                                          {"we"})), {"claim"})),
            PunctTail(t, Word(t, Ws1(t, Word(t, q, {"i"})), {"claim"})),
            PunctTail(t, Word(t, Ws1(t, Word(t, q, {"we"})), {"claim"})) >>)

\* Mutant of ClaimsSearch: the rightmost match instead of the leftmost.
ClaimsSearchLast(t, pos) ==
  MaxOrNoMatch({p \in pos..Len(t) : ClaimsHeaderAt(t, p) # NoMatch})

\* CLAIMS_HEADER_PATTERN.search(t, pos).start(): the leftmost offset at or
\* after pos where the pattern matches, or NoMatch.
ClaimsSearch(t, pos) ==
  MinOrNoMatch({p \in pos..Len(t) : ClaimsHeaderAt(t, p) # NoMatch})

\* "abstract\s+of\s+the\s+<last>\s*[:\.]?\s*$" after the word "abstract".
AbstractOfThe(t, r, last) ==
  PunctTail(t, Word(t, Ws1(t, Word(t, Ws1(t, Word(t, Ws1(t, r), {"of"})),
                                   {"the"})), {last}))

\* ABSTRACT_HEADER_PATTERN tried at offset p: the match's end, or NoMatch.
AbstractHeaderAt(t, p) ==
  IF ~AtLineStart(t, p) THEN NoMatch
  ELSE LET r == Word(t, SkipWs(t, p), {"abstract"})
       IN IF r = NoMatch THEN NoMatch
          ELSE FirstMatch(<<
                 WsDollar(t, r),
                 AbstractOfThe(t, r, "disclosure"),
                 AbstractOfThe(t, r, "invention"),
                 WsDollar(t, Word(t, SkipWs(t, r), Punct)),
                 Ws1(t, r) >>)

\* ABSTRACT_HEADER_PATTERN.search(t).start(), or NoMatch.
AbstractSearch(t) ==
  MinOrNoMatch({p \in 0..Len(t) : AbstractHeaderAt(t, p) # NoMatch})

\* match.end() of the match that starts at offset match_start.
AbstractMatchEnd(t, match_start) ==
  IF match_start = NoMatch THEN NoMatch ELSE AbstractHeaderAt(t, match_start)

\* ABSTRACT_HEADER_PATTERN.search(t).end(), or NoMatch.
AbstractSearchEnd(t) == AbstractMatchEnd(t, AbstractSearch(t))

\* The section-header pattern of _extract_abstract tried at offset p of s:
\* "^(?:description|background|summary|detailed\s+description|
\*   brief\s+description)\s*$".
SectionHeaderAt(s, p) ==
  IF ~AtLineStart(s, p) THEN NoMatch
  ELSE FirstMatch(<<
         WsDollar(s, Word(s, p, {"description", "background", "summary"})),
         WsDollar(s, Word(s, Ws1(s, Word(s, p, {"detailed"})),
                          {"description"})),
         WsDollar(s, Word(s, Ws1(s, Word(s, p, {"brief"})),
                          {"description"})) >>)

\* re.search(<section headers>, s).start(), or NoMatch.
SectionSearch(s) ==
  MinOrNoMatch({p \in 0..Len(s) : SectionHeaderAt(s, p) # NoMatch})

\* re.search(r"\n\s*\n", s).start(), or NoMatch.
ParaBreakSearch(s) ==
  MinOrNoMatch({p \in 0..(Len(s) - 1) :
                  /\ s[p + 1] = NL
                  /\ \E q \in (p + 2)..Len(s) :
                       s[q] = NL /\ \A i \in (p + 2)..(q - 1) : IsSpace(s[i])})

\* ------------------------------------------------------- section splitting

\* _extract_abstract, "if para_break": the paragraph break found at offset
\* para_break of rest = text[abstract_start:] ends the abstract when it is
\* less than 500 characters from the abstract's start; else the text's end.
ParaEnd(rest, para_break) ==
  IF para_break # NoMatch /\ CharLen(Slice(rest, 0, para_break)) < ParaLimit
  THEN para_break
  ELSE Len(rest)

\* _extract_abstract, "else" of "if next_section": the abstract's end as an
\* offset of rest = text[abstract_start:], where the section header and the
\* paragraph break are searched.
EndInRest(rest) ==
  OrElse(SectionSearch(rest), ParaEnd(rest, ParaBreakSearch(rest)))

\* _extract_abstract: where the abstract that starts at abstract_start ends.
AbstractEnd(text, abstract_start) ==
  OrElse(ClaimsSearch(text, abstract_start),
         abstract_start + EndInRest(Slice(text, abstract_start, Len(text))))

\* "text[: abstract_match.start()] + text[abstract_end:]", then strip().
RemoveSpan(text, from, to) ==
  Strip(Slice(text, 0, from) \o Slice(text, to, Len(text)))

\* Mutant of ExtractAbstract: an abstract that is empty after trimming is
\* returned, and its header removed, as if it were an abstract.
ExtractAbstractKeepsEmpty(text) ==
  LET match_start == AbstractSearch(text)
      abstract_start == AbstractSearchEnd(text)
      abstract_end == AbstractEnd(text, abstract_start)
  IN IF match_start = NoMatch THEN <<text, None>>
     ELSE << RemoveSpan(text, match_start, abstract_end),
             Strip(Slice(text, abstract_start, abstract_end)) >>

\* Mutant of ExtractAbstract: only the abstract's body is removed, from the
\* header's end; the header stays in the text.
ExtractAbstractKeepsHeader(text) ==
  LET match_start == AbstractSearch(text)
      abstract_start == AbstractSearchEnd(text)
      abstract_end == AbstractEnd(text, abstract_start)
      abstract_text == Strip(Slice(text, abstract_start, abstract_end))
  IN IF match_start = NoMatch THEN <<text, None>>
     ELSE IF abstract_text = <<>> THEN <<text, None>>
     ELSE <<RemoveSpan(text, abstract_start, abstract_end), abstract_text>>

\* _extract_abstract from "if not abstract_text" on: the value returned for
\* the header found at match_start, the end abstract_end and the trimmed span
\* abstract_text.
ExtractSpan(text, match_start, abstract_end, abstract_text) ==
  IF abstract_text = <<>> THEN <<text, None>>
  ELSE <<RemoveSpan(text, match_start, abstract_end), abstract_text>>

\* _extract_abstract from "abstract_text = text[abstract_start:abstract_end]
\* .strip()" on.
ExtractBetween(text, match_start, abstract_start, abstract_end) ==
  ExtractSpan(text, match_start, abstract_end,
              Strip(Slice(text, abstract_start, abstract_end)))

\* _extract_abstract from "abstract_start = abstract_match.end()" on, for
\* the match (or NoMatch) at match_start.
ExtractAt(text, match_start) ==
  IF match_start = NoMatch THEN <<text, None>>
  ELSE ExtractBetween(text, match_start, AbstractHeaderAt(text, match_start),
         AbstractEnd(text, AbstractHeaderAt(text, match_start)))

\* _extract_abstract(text): <<text_without_abstract, abstract or None>>.
ExtractAbstract(text) == ExtractAt(text, AbstractSearch(text))

\* Mutant of StripAbstractFromClaims: the abstract is cut at the header's
\* start, so the header line is part of it.
StripAbstractWithHeader(claims_text) ==
  LET match_start == AbstractSearch(claims_text)
  IN IF match_start # NoMatch
     THEN << Strip(Slice(claims_text, 0, match_start)),
             Strip(Slice(claims_text, match_start, Len(claims_text))) >>
     ELSE <<claims_text, None>>

\* Mutant of StripAbstractFromClaims: the abstract is copied out of the
\* claims and not removed from them.
StripAbstractCopied(claims_text) ==
  LET match_start == AbstractSearch(claims_text)
  IN IF match_start # NoMatch
     THEN << claims_text,
             Strip(Slice(claims_text, AbstractSearchEnd(claims_text),
                         Len(claims_text))) >>
     ELSE <<claims_text, None>>

\* A stripping with the two slices exchanged: the text after the abstract
\* header is kept as the claims, the text before it is the abstract.
StripAtSwapped(claims_text, match_start) ==
  IF match_start # NoMatch
  THEN << Strip(Slice(claims_text, AbstractHeaderAt(claims_text, match_start),
                      Len(claims_text))),
          Strip(Slice(claims_text, 0, match_start)) >>
  ELSE <<claims_text, None>>

\* _strip_abstract_from_claims from "if abstract_match" on, for the match
\* (or NoMatch) at match_start.
StripAt(claims_text, match_start) ==
  IF match_start # NoMatch
  THEN << Strip(Slice(claims_text, 0, match_start)),
          Strip(Slice(claims_text, AbstractHeaderAt(claims_text, match_start),
                      Len(claims_text))) >>
  ELSE <<claims_text, None>>

\* _strip_abstract_from_claims(claims_text):
\* <<claims_without_abstract, abstract or None>>.
StripAbstractFromClaims(claims_text) ==
  StripAt(claims_text, AbstractSearch(claims_text))

\* Python truth of a string-or-None value.
Truthy(v) == v # None /\ v # <<>>

\* Mutant of PyOr: the second operand is preferred.
PyOrSecondFirst(a, b) == IF Truthy(b) THEN b ELSE a

\* Mutant of PyOr: "a if a is not None else b".
PyOrUnlessNone(a, b) == IF a # None THEN a ELSE b

\* "a or b"
PyOr(a, b) == IF Truthy(a) THEN a ELSE b

\* The four files the agent writes in its working directory.
FileNames ==
  {"describtion_text.txt", "claims_text.txt", "abstract_text.txt",
   "drawings_text.txt"}

\* _save_text(filename, text)
SaveText(fs, filename, text) == [fs EXCEPT ![filename] = text]

\* A clearing of the one file every run writes again.
ClearDescriptionOnly(fs) == [fs EXCEPT !["describtion_text.txt"] = <<>>]

\* _clear_output_files()
ClearOutputFiles(fs) == [f \in FileNames |-> <<>>]

\* A call of _split_and_save is modelled by what it leaves: the returned
\* description_text and abstract_text, the claims_text it computed (None when
\* it computed none) and the files after the call.

\* "if abstract_text: self._save_text("abstract_text.txt", abstract_text)"
SaveAbstract(fs, abstract_text) ==
  IF Truthy(abstract_text)
  THEN SaveText(fs, "abstract_text.txt", abstract_text)
  ELSE fs

\* _split_and_save, "if not claims_match", after the extraction: the
\* description is saved, the abstract is saved if there is one, no claims.
NoClaimsSaved(fs, extracted) ==
  [ description_text |-> extracted[1],
    claims_text |-> None,
    abstract_text |-> extracted[2],
    files |-> SaveAbstract(SaveText(fs, "describtion_text.txt", extracted[1]),
                           extracted[2]) ]

\* Mutant of SplitNoClaims: the text is not trimmed before the extraction.
SplitNoClaimsUntrimmed(full_text, fs) ==
  NoClaimsSaved(fs, ExtractAbstract(full_text))

\* _split_and_save, "if not claims_match": no claims section found.
SplitNoClaims(full_text, fs) ==
  NoClaimsSaved(fs, ExtractAbstract(Strip(full_text)))

\* _split_and_save, "Save all files" and the return.
SectionsSaved(fs, description_text, claims, abstract_text) ==
  [ description_text |-> description_text,
    claims_text |-> claims,
    abstract_text |-> abstract_text,
    files |-> SaveAbstract(
                SaveText(SaveText(fs, "describtion_text.txt", description_text),
                         "claims_text.txt", claims),
                abstract_text) ]

\* A saving that returns both abstracts, the one of the claims after the
\* one of the description, when both were found.
ClaimsSavedBothAbstracts(fs, stripped, extracted) ==
  SectionsSaved(fs, extracted[1], stripped[1],
                IF Truthy(stripped[2]) /\ Truthy(extracted[2])
                THEN extracted[2] \o stripped[2]
                ELSE PyOr(stripped[2], extracted[2]))

\* _split_and_save from "abstract_text = abstract_from_claims or
\* abstract_from_desc" on, for the results of the two extractions.
ClaimsSaved(fs, stripped, extracted) ==
  SectionsSaved(fs, extracted[1], stripped[1], PyOr(stripped[2], extracted[2]))

\* _split_and_save, "Split at the claims header" at offset claims_start.
SplitAtClaims(full_text, fs, claims_start) ==
  ClaimsSaved(fs,
    StripAbstractFromClaims(
      Strip(Slice(full_text, claims_start, Len(full_text)))),
    ExtractAbstract(Strip(Slice(full_text, 0, claims_start))))

\* _split_and_save(full_text) with the files as they are before the call.
SplitAndSave(full_text, fs) ==
  LET claims_start == ClaimsSearch(full_text, 0)
  IN IF claims_start = NoMatch
     THEN SplitNoClaims(full_text, fs)
     ELSE SplitAtClaims(full_text, fs, claims_start)

\* ------------------------------------------------------------------ state

VARIABLES
  pc,               \* where the call is: "input" or "run" before it starts
  path,             \* run: what file_path names
  document,         \* run: the text the document processor extracts
  claims_uploaded,  \* run: its claims_uploaded argument
  full_text,        \* the text the call is made on; in run, the cleaned text
  ret,              \* the values returned: a pair of texts
  claims_text,      \* the claims text _split_and_save computed, or None
  files,            \* file name -> content
  upstream,         \* run: how the extraction step of the processor ends
  table,            \* the rows of cells a drawn table was written from
  workflow          \* invocation -> the state of one workflow invocation

vars ==
  <<pc, path, document, claims_uploaded, full_text, ret, claims_text, files,
    upstream, table, workflow>>

\* What the calls of one function and the single run leave alone: the
\* extraction step's outcome, the drawn table, the workflow invocations.
frame == <<upstream, table, workflow>>

\* Texts of at most n tokens over an alphabet.
SeqsUpTo(alphabet, n) == UNION {[1..k -> alphabet] : k \in 0..n}

\* The files before a call hold an earlier call's output.
StaleFiles == [f \in FileNames |-> <<"stale">>]

\* What a file_path can name: no file, a file whose extension is not
\* handled, a PDF, DOCX or image file.
Paths == {"missing", "unsupported", "pdf", "docx", "image"}

\* The paths run has a processor for.
Supported == {"pdf", "docx", "image"}

\* ------------------------------------------------- calls of the functions

\* The tokens the splitting functions tell apart.
SplitAlphabet == {"abstract", "claims", "background", SP, NL, "w"}

\* The lines the drawn documents are made of: blank, a short and a long line
\* of body text, the headers alone on their line, and an abstract header with
\* its text on the same line.
LineShapes ==
  { <<>>, <<"w">>, <<"long">>, <<"abstract">>, <<"claims">>, <<"background">>,
    <<"abstract", SP, "long">> }

\* The texts the calls are made on: every text of at most MaxLen tokens, and
\* every document of at most MaxLines lines.
SplitTexts ==
  SeqsUpTo(SplitAlphabet, MaxLen)
    \cup {JoinLines(ls) : ls \in SeqsUpTo(LineShapes, MaxLines)}

\* The tokens the line-number stripper tells apart.
CleanAlphabet == {"0", "1", "5", SP, NL, "w", "#"}

\* Before a call of one function: everything but the text it is called on.
InitArguments ==
  /\ pc = "input"
  /\ path = "pdf"
  /\ document = <<>>
  /\ claims_uploaded = FALSE
  /\ ret = <<None, None>>
  /\ claims_text = None
  /\ files = StaleFiles
  /\ upstream = "ok"
  /\ workflow = <<>>

\* Before a call of one function on a text.
InitCall(texts) ==
  /\ InitArguments
  /\ full_text \in texts
  /\ table = {}

InitSplit == InitCall(SplitTexts)

InitClean == InitCall(SeqsUpTo(CleanAlphabet, MaxLen))

\* A call of _extract_abstract(full_text).
CallExtractAbstract ==
  /\ pc = "input"
  /\ pc' = "_extract_abstract"
  /\ ret' = ExtractAbstract(full_text)
  /\ UNCHANGED <<frame, path, document, claims_uploaded, full_text,
                 claims_text, files>>

\* A call of _strip_abstract_from_claims(full_text).
CallStripAbstractFromClaims ==
  /\ pc = "input"
  /\ pc' = "_strip_abstract_from_claims"
  /\ ret' = StripAbstractFromClaims(full_text)
  /\ UNCHANGED <<frame, path, document, claims_uploaded, full_text,
                 claims_text, files>>

\* A call of _split_and_save(full_text).
CallSplitAndSave ==
  /\ pc = "input"
  /\ \E r \in {SplitAndSave(full_text, files)} :
       /\ ret' = <<r.description_text, r.abstract_text>>
       /\ claims_text' = r.claims_text
       /\ files' = r.files
  /\ pc' = "_split_and_save"
  /\ UNCHANGED <<frame, path, document, claims_uploaded, full_text>>

\* A call of _clean_text(full_text); the second value returned is unused.
CallCleanText ==
  /\ pc = "input"
  /\ IF CleanRaises(full_text)
     THEN pc' = "ValueError" /\ ret' = ret
     ELSE pc' = "_clean_text" /\ ret' = <<CleanText(full_text), None>>
  /\ UNCHANGED <<frame, path, document, claims_uploaded, full_text,
                 claims_text, files>>

NextSplit ==
  \/ CallExtractAbstract
  \/ CallStripAbstractFromClaims
  \/ CallSplitAndSave

SpecSplit == InitSplit /\ [][NextSplit]_vars

SpecClean == InitClean /\ [][CallCleanText]_vars

\* ------------------------------------- calls of _html_tables_to_markdown

\* Most rows of a drawn table, most cells of a row.
MaxRows == 2
MaxCells == 2

\* The tokens the table patterns tell apart.
TableAlphabet ==
  {"<table>", "</table>", "<tr>", "</tr>", "<td>", "</td>", "w"}

\* The cell texts of the drawn tables: a word, and a word between spaces.
CellTexts == {<<"a">>, <<SP, "b", SP>>}

\* The drawn tables: at most MaxRows rows of at most MaxCells cells.
TableShapes == SeqsUpTo(SeqsUpTo(CellTexts, MaxCells), MaxRows)

\* The texts of a sequence of texts, one after the other.
RECURSIVE Concat(_)
Concat(texts) ==
  IF texts = <<>> THEN <<>> ELSE Head(texts) \o Concat(Tail(texts))

\* The markup "<tr>(.*?)</tr>" and "<t[dh][^>]*>(.*?)</t[dh]>" match: a row
\* of cells between the tags open and close.
HtmlRow(cells, open, close) ==
  <<"<tr>">>
    \o Concat([i \in 1..Len(cells) |-> <<open>> \o cells[i] \o <<close>>])
    \o <<"</tr>">>

\* The markup "<table>.*?</table>" matches: a table whose first row is made
\* of header cells.
HtmlTable(rows) ==
  <<"<table>">>
    \o Concat([i \in 1..Len(rows) |->
                 IF i = 1 THEN HtmlRow(rows[i], "<th>", "</th>")
                 ELSE HtmlRow(rows[i], "<td>", "</td>")])
    \o <<"</table>">>

\* A piece of a drawn text: a table written from its rows, or plain text.
TablePiece(rows) == [is_table |-> TRUE, rows |-> rows, text |-> HtmlTable(rows)]
TextPiece(text) == [is_table |-> FALSE, rows |-> <<>>, text |-> text]

\* The drawn texts, as sequences of pieces: a table with or without text
\* around it, and a table followed by a second one.
TableDocs ==
  {<<TextPiece(b), TablePiece(rows), TextPiece(a)>> :
     b \in {<<>>, <<"w", NL>>}, rows \in TableShapes, a \in {<<>>, <<NL, "w">>}}
  \cup {<<TablePiece(rows), TextPiece(<<NL>>), TablePiece(<<<<<<"a">>>>>>)>> :
          rows \in TableShapes}

\* The text of a drawn sequence of pieces.
PiecesText(pieces) == Concat([i \in 1..Len(pieces) |-> pieces[i].text])

\* Before a call of _html_tables_to_markdown: on any text of at most MaxLen
\* table tokens, or on a drawn text.
InitTables ==
  \/ InitCall(SeqsUpTo(TableAlphabet, MaxLen))
  \/ /\ InitArguments
     /\ \E pieces \in TableDocs :
          /\ table = {pieces}
          /\ full_text = PiecesText(pieces)

\* A call of _html_tables_to_markdown(full_text).
CallHtmlTablesToMarkdown ==
  /\ pc = "input"
  /\ pc' = "_html_tables_to_markdown"
  /\ ret' = <<HtmlTablesToMarkdown(full_text), None>>
  /\ UNCHANGED <<frame, path, document, claims_uploaded, full_text,
                 claims_text, files>>

SpecTables == InitTables /\ [][CallHtmlTablesToMarkdown]_vars

\* --------------------------- calls of every splitting and cleaning function

\* The tokens of a text with headers, numbering and a long run of digits.
TotalAlphabet == {"abstract", "claims", "digits", "5", SP, NL, "w"}

InitTotal == InitCall(SeqsUpTo(TotalAlphabet, MaxLen))

NextTotal ==
  \/ NextSplit
  \/ CallCleanText
  \/ CallHtmlTablesToMarkdown

SpecTotal == InitTotal /\ [][NextTotal]_vars

\* ---------------------------------------- searches of the header patterns

\* The tokens the two header patterns tell apart in a short text.
HeaderAlphabet == {"claims", "abstract", ":", ".", SP, NL, "w"}

InitHeaders == InitCall(SeqsUpTo(HeaderAlphabet, MaxLen))

\* The end of the match of a pattern that starts at offset start.
MatchEnd(at_start, start) == IF start = NoMatch THEN NoMatch ELSE at_start

\* CLAIMS_HEADER_PATTERN.search(full_text): the match's start and end, or
\* NoMatch twice.
CallClaimsHeaderSearch ==
  /\ pc = "input"
  /\ pc' = "CLAIMS_HEADER_PATTERN.search"
  /\ \E start \in {ClaimsSearch(full_text, 0)} :
       ret' = <<start, MatchEnd(ClaimsHeaderAt(full_text, start), start)>>
  /\ UNCHANGED <<frame, path, document, claims_uploaded, full_text,
                 claims_text, files>>

\* ABSTRACT_HEADER_PATTERN.search(full_text): the match's start and end, or
\* NoMatch twice.
CallAbstractHeaderSearch ==
  /\ pc = "input"
  /\ pc' = "ABSTRACT_HEADER_PATTERN.search"
  /\ ret' = <<AbstractSearch(full_text), AbstractSearchEnd(full_text)>>
  /\ UNCHANGED <<frame, path, document, claims_uploaded, full_text,
                 claims_text, files>>

NextHeaders ==
  \/ CallClaimsHeaderSearch
  \/ CallAbstractHeaderSearch

SpecHeaders == InitHeaders /\ [][NextHeaders]_vars

\* --------------------- extract_sections_with_llm (src/utils/llm_fallback.py)

\* The replies of the model are texts of these tokens: the fences of a
\* markdown code block (three backquotes, alone or before "json"), a space, an ordinary character, and JSON texts, each
\* one token: two objects, an array and null.
Fence == "<fence>"
JsonFence == "<fence>json"
JsonSections == "{\"description\": \"d\", \"claims\": null}"
JsonClaims == "{\"claims\": \"c\", \"abstract\": \"a\"}"
JsonArray == "[\"d\"]"
JsonNull == "null"
JsonTexts == {JsonSections, JsonClaims, JsonArray, JsonNull}
LlmAlphabet == {Fence, JsonFence, SP, "w"} \cup JsonTexts

\* How the request ends: the import of openai fails, the request raises, the
\* reply has no content (content is None), or the reply has a content.
LlmOutcomes == {"ImportError", "APIError", "no content", "reply"}

\* The offset of the first fence of the given kinds in t, NoMatch without one.
Find(t, fences) == MinOrNoMatch({i \in 0..(Len(t) - 1) : t[i + 1] \in fences})

\* t.split(fence)[0]: the text before the first fence, everything without
\* one.  The fence is the start of the json fence, so both fences end it.
BeforeFence(t) ==
  IF Find(t, {Fence, JsonFence}) = NoMatch THEN t
  ELSE Slice(t, 0, Find(t, {Fence, JsonFence}))

\* "Handle markdown code blocks": the inside of the first json block, else
\* of the first block, else the content.
CodeBlock(content) ==
  IF Find(content, {JsonFence}) # NoMatch
  THEN BeforeFence(Slice(content, Find(content, {JsonFence}) + 1, Len(content)))
  ELSE IF Find(content, {Fence}) # NoMatch
  THEN BeforeFence(Slice(content, Find(content, {Fence}) + 1, Len(content)))
  ELSE content

\* json.loads(t) returns: t is one JSON text with whitespace around it.
IsJson(t) == Len(Strip(t)) = 1 /\ Strip(t)[1] \in JsonTexts

\* json.loads(t) of an object: the object, key -> value (None for null).
JsonObject(t) ==
  CASE Strip(t)[1] = JsonSections ->
         [description |-> <<"d">>, claims |-> None]
    [] Strip(t)[1] = JsonClaims -> [claims |-> <<"c">>, abstract |-> <<"a">>]
IsObject(t) == IsJson(t) /\ Strip(t)[1] \in {JsonSections, JsonClaims}

\* result.get(key)
Get(result, key) == IF key \in DOMAIN result THEN result[key] ELSE None

\* The exception the body of the function raises, "" when it raises none:
\* the import, the request, content.strip() of None, json.loads, and
\* result.get of a value that is not a dict.
Raised(outcome, content) ==
  CASE outcome = "ImportError" -> "ImportError"
    [] outcome = "APIError" -> "APIError"
    [] outcome = "no content" -> "AttributeError"
    [] ~IsJson(CodeBlock(Strip(content))) -> "JSONDecodeError"
    [] ~IsObject(CodeBlock(Strip(content))) -> "AttributeError"
    [] OTHER -> ""

\* An exception restricted to the JSON errors the inner handler catches.
CaughtIfJson(exception) == exception = "JSONDecodeError"

\* "except json.JSONDecodeError", then "except Exception": every exception
\* of the body is caught.
Caught(exception) == exception # ""

\* extract_sections_with_llm(text) with the request's outcome and the reply's
\* content: what it returns, and the exception that leaves it ("" for none).
ExtractSectionsWithLlm(outcome, content) ==
  IF Raised(outcome, content) = ""
  THEN [ raised |-> "",
         returned |->
           << Get(JsonObject(CodeBlock(Strip(content))), "description"),
              Get(JsonObject(CodeBlock(Strip(content))), "claims"),
              Get(JsonObject(CodeBlock(Strip(content))), "abstract") >> ]
  ELSE IF Caught(Raised(outcome, content))
  THEN [raised |-> "", returned |-> <<None, None, None>>]
  ELSE [raised |-> Raised(outcome, content), returned |-> <<None, None>>]

\* Before a call: the outcome of the request in upstream, the content of the
\* reply in full_text.
InitLlm ==
  /\ pc = "input"
  /\ path = "pdf"
  /\ document = <<>>
  /\ claims_uploaded = FALSE
  /\ ret = <<None, None>>
  /\ claims_text = None
  /\ files = StaleFiles
  /\ table = {}
  /\ workflow = <<>>
  /\ upstream \in LlmOutcomes
  /\ full_text \in IF upstream = "reply"
                   THEN SeqsUpTo(LlmAlphabet, MaxLen) ELSE {<<>>}

\* A call of extract_sections_with_llm.
CallExtractSectionsWithLlm ==
  /\ pc = "input"
  /\ \E r \in {ExtractSectionsWithLlm(upstream, full_text)} :
       /\ pc' = IF r.raised = "" THEN "extract_sections_with_llm" ELSE r.raised
       /\ ret' = r.returned
  /\ UNCHANGED <<frame, path, document, claims_uploaded, full_text,
                 claims_text, files>>

SpecLlm == InitLlm /\ [][CallExtractSectionsWithLlm]_vars

\* ------------------------------------------- DescriptionReaderSubAgent.run

\* The lines of the documents run is given: the lines of a patent text, a
\* claims header behind a line number and an abstract header behind a
\* markdown heading mark.
DocumentLines ==
  { <<>>, <<"w">>, <<"abstract">>, <<"claims">>, <<"abstract", SP, "w">>,
    <<"5", SP, "claims">>, <<"#", SP, "abstract">> }

Documents == {JoinLines(ls) : ls \in SeqsUpTo(DocumentLines, MaxLines)}

\* How the extraction step ends for a path: _process_pdf (and _process_image,
\* which calls it) finds MinerU not imported, parse_doc raises, or no
\* markdown file is written; _process_docx cannot import docx, or
\* Document(path) raises while it reads the file.
Upstream(p) ==
  CASE p \in {"pdf", "image"} ->
         {"ok", "not imported", "exception", "no markdown"}
    [] p = "docx" -> {"ok", "not installed", "read failure"}
    [] OTHER -> {"ok"}

\* The error strings the processors return, each one line of ordinary text.
ErrorText(outcome) ==
  CASE outcome = "not imported" ->
         <<"Error: MinerU/Magic-PDF components not correctly imported.">>
    [] outcome = "exception" -> <<"Description Extraction Exception: ...">>
    [] outcome = "no markdown" ->
         <<"Error: Extraction completed but no Markdown output was found">>
    [] outcome = "not installed" -> <<"Error: python-docx not installed.">>

\* The text the processor returns.
ProcessedText(outcome, doc) == IF outcome = "ok" THEN doc ELSE ErrorText(outcome)

\* The processor raises instead of returning: _process_docx catches
\* ImportError only.
ProcessRaises(p, outcome) == p = "docx" /\ outcome = "read failure"

Init ==
  /\ pc = "run"
  /\ path \in Paths
  /\ upstream \in Upstream(path)
  /\ document \in IF path \in Supported /\ upstream = "ok"
                  THEN Documents ELSE {<<>>}
  /\ claims_uploaded \in BOOLEAN
  /\ full_text = <<>>
  /\ ret = <<None, None>>
  /\ claims_text = None
  /\ files = StaleFiles
  /\ table = {}
  /\ workflow = <<>>

\* A run that checks the path first and clears the files of a path it has a
\* processor for only.
RunClearIfSupported ==
  /\ pc = "run"
  /\ files' = IF path \in Supported THEN ClearOutputFiles(files) ELSE files
  /\ pc' = "cleared"
  /\ UNCHANGED <<frame, path, document, claims_uploaded, full_text, ret,
                 claims_text>>

\* run: self._clear_output_files()
RunClearOutputFiles ==
  /\ pc = "run"
  /\ files' = ClearOutputFiles(files)
  /\ pc' = "cleared"
  /\ UNCHANGED <<frame, path, document, claims_uploaded, full_text, ret,
                 claims_text>>

\* run: the path does not exist, or its extension is not handled: the call
\* raises and returns nothing.
RunRaise ==
  /\ pc = "cleared"
  /\ path \notin Supported
  /\ pc' = IF path = "missing" THEN "FileNotFoundError" ELSE "ValueError"
  /\ UNCHANGED <<frame, path, document, claims_uploaded, full_text, ret,
                 claims_text, files>>

\* run, "text = self._process_docx(path)": an exception of Document(path)
\* leaves _process_docx and run.
RunProcessRaise ==
  /\ pc = "cleared"
  /\ path \in Supported
  /\ ProcessRaises(path, upstream)
  /\ pc' = "Exception"
  /\ UNCHANGED <<frame, path, document, claims_uploaded, full_text, ret,
                 claims_text, files>>

\* run: the processor for the file's extension returns the document's text
\* or an error string, and "text = self._clean_text(text)".
RunCleanText ==
  /\ pc = "cleared"
  /\ path \in Supported
  /\ ~ProcessRaises(path, upstream)
  /\ \E text \in {ProcessedText(upstream, document)} :
       IF CleanRaises(text)
       THEN pc' = "ValueError" /\ full_text' = full_text
       ELSE pc' = "cleaned" /\ full_text' = CleanText(text)
  /\ UNCHANGED <<frame, path, document, claims_uploaded, ret, claims_text,
                 files>>

\* A run that splits the text although the claims were uploaded.
RunSaveFullTextSplit ==
  /\ pc = "cleaned"
  /\ claims_uploaded
  /\ \E r \in {SplitAndSave(full_text, files)} :
       /\ files' = r.files
       /\ ret' = <<r.description_text, <<>>>>
  /\ pc' = "done"
  /\ UNCHANGED <<frame, path, document, claims_uploaded, full_text,
                 claims_text>>

\* run, "if claims_uploaded": the whole text is saved as the description and
\* returned with the abstract "".
RunSaveFullText ==
  /\ pc = "cleaned"
  /\ claims_uploaded
  /\ files' = SaveText(files, "describtion_text.txt", full_text)
  /\ ret' = <<full_text, <<>>>>
  /\ pc' = "done"
  /\ UNCHANGED <<frame, path, document, claims_uploaded, full_text,
                 claims_text>>

\* run, "else": description_text, abstract_text = self._split_and_save(text)
RunSplitAndSave ==
  /\ pc = "cleaned"
  /\ ~claims_uploaded
  /\ \E r \in {SplitAndSave(full_text, files)} :
       /\ ret' = <<r.description_text, r.abstract_text>>
       /\ claims_text' = r.claims_text
       /\ files' = r.files
  /\ pc' = "done"
  /\ UNCHANGED <<frame, path, document, claims_uploaded, full_text>>

Next ==
  \/ RunClearOutputFiles
  \/ RunRaise
  \/ RunProcessRaise
  \/ RunCleanText
  \/ RunSaveFullText
  \/ RunSplitAndSave

Spec == Init /\ [][Next]_vars

\* ------------------------------------------- the workflow (src/workflow.py)

\* Invocations of the compiled workflow, none with a claims_path or a
\* drawings_path; all run in one working directory, where the relative file
\* names of _save_text and run_claims are resolved.
Invocations == 1..MaxInvocations

\* The documents of the invocations: without claims, and with claims "1" or
\* "2" behind a description, one with an abstract.
WorkflowDocuments ==
  { <<"w">>,
    <<"w", NL, "claims", NL, "1">>,
    <<"w", NL, "claims", NL, "2">>,
    <<"abstract", SP, "w", NL, NL, "w", NL, "claims", NL, "1">> }

\* text = "Not provided."
NotProvided == <<"Not provided.">>

\* The texts of the uploaded claims files: none at all, claims, and claims
\* behind a heading mark and a line number.
ClaimsUploads == { <<>>, <<"claims", NL, "3">>, <<"#", "5", SP, "3">> }

\* The texts the drawing reader extracts from the uploaded drawings files.
DrawingsUploads == { <<>>, <<"w", NL, "w">> }

\* ClaimsReaderSubAgent._clean_text(text)
ClaimsCleanText(text) == StripLineNumbers(RemoveHash(text))

\* The state of an invocation at the entry point, PatentAnalysisState with
\* its defaults: node is where the graph is, step where its node is, ran the
\* nodes that were started; a path is "" (not given), "missing" or "pdf", and
\* the documents are the texts the readers extract from the files.
Invocation(dpath, doc, cpath, cdoc, wpath, wdoc) ==
  [ node |-> "description_reader", step |-> "run", ran |-> <<>>,
    current_agent |-> "description_reader",
    description_path |-> dpath, document |-> doc,
    claims_path |-> cpath, claims_document |-> cdoc,
    drawings_path |-> wpath, drawings_document |-> wdoc,
    description_text |-> <<>>, claims_text |-> <<>>,
    abstract_text |-> <<>>, drawings_text |-> <<>> ]

\* An invocation with a description file only.
Entry(doc) == Invocation("pdf", doc, "", <<>>, "", <<>>)

\* The invocations of one workflow: with or without a description file, a
\* claims file and a drawings file.
Entries ==
  { Invocation("pdf", doc, "", <<>>, "", <<>>) : doc \in WorkflowDocuments }
  \cup { Invocation("pdf", doc, "pdf", cdoc, "", <<>>) :
           doc \in WorkflowDocuments, cdoc \in ClaimsUploads }
  \cup { Invocation("pdf", doc, "", <<>>, "pdf", wdoc) :
           doc \in WorkflowDocuments, wdoc \in DrawingsUploads }
  \cup { Invocation("pdf", doc, "pdf", cdoc, "pdf", wdoc) :
           doc \in WorkflowDocuments, cdoc \in ClaimsUploads,
           wdoc \in DrawingsUploads }
  \cup { Invocation("missing", <<>>, "", <<>>, "", <<>>) }
  \cup { Invocation("pdf", doc, "missing", <<>>, wpath, <<>>) :
           doc \in WorkflowDocuments, wpath \in {"", "missing"} }
  \cup { Invocation("pdf", doc, cpath, <<"claims", NL, "3">>, "missing", <<>>) :
           doc \in WorkflowDocuments, cpath \in {"pdf"} }
  \cup { Invocation("pdf", doc, "", <<>>, "missing", <<>>) :
           doc \in WorkflowDocuments }

\* The variables of a call of run, which the workflow leaves alone.
InitNoCall ==
  /\ pc = "workflow"
  /\ path = "pdf"
  /\ document = <<>>
  /\ claims_uploaded = FALSE
  /\ full_text = <<>>
  /\ ret = <<None, None>>
  /\ claims_text = None
  /\ files = StaleFiles
  /\ upstream = "ok"
  /\ table = {}

InitWorkflow ==
  /\ InitNoCall
  /\ workflow \in [Invocations -> {Entry(doc) : doc \in WorkflowDocuments}]

\* One invocation of the workflow, alone in its working directory.
InitInvocation ==
  /\ InitNoCall
  /\ workflow \in [{1} -> Entries]

\* run_description, description_reader.run(path): self._clear_output_files()
RunDescriptionClear(i) ==
  /\ workflow[i].node = "description_reader"
  /\ workflow[i].step = "run"
  /\ files' = ClearOutputFiles(files)
  /\ workflow' = [workflow EXCEPT ![i].step = "cleared",
                                  ![i].ran = Append(@, "description_reader")]
  /\ UNCHANGED <<pc, path, document, claims_uploaded, full_text, ret,
                 claims_text, upstream, table>>

\* run_description, description_reader.run(path) raises FileNotFoundError:
\* the invocation ends with the exception.
RunDescriptionRaise(i) ==
  /\ workflow[i].node = "description_reader"
  /\ workflow[i].step = "cleared"
  /\ workflow[i].description_path = "missing"
  /\ workflow' = [workflow EXCEPT ![i].node = "raised"]
  /\ UNCHANGED <<pc, path, document, claims_uploaded, full_text, ret,
                 claims_text, files, upstream, table>>

\* run_description: the files are cleared and the description file exists.
CanRunDescriptionSplit(i) ==
  /\ workflow[i].node = "description_reader"
  /\ workflow[i].step = "cleared"
  /\ workflow[i].description_path # "missing"

\* run_description, the rest of description_reader.run(path): the text is
\* cleaned, split and saved; the node returns description_text,
\* abstract_text and current_agent.
RunDescriptionSplit(i) ==
  /\ CanRunDescriptionSplit(i)
  /\ \E r \in {SplitAndSave(CleanText(workflow[i].document), files)} :
       /\ files' = r.files
       /\ workflow' = [workflow EXCEPT ![i].node = "claims_reader",
                                       ![i].step = "run",
                                       ![i].description_text = r.description_text,
                                       ![i].abstract_text = r.abstract_text,
                                       ![i].current_agent = "claims_reader"]
  /\ UNCHANGED <<pc, path, document, claims_uploaded, full_text, ret,
                 claims_text, upstream, table>>

\* What run_claims and run_drawing make of the file they read.
TextOrNotProvided(text) == IF Strip(text) # <<>> THEN text ELSE NotProvided

\* A reader node that prefers the text already in the file to the uploaded
\* file.
ReadOrLoadFileFirst(given, text, fs, filename) ==
  IF given /\ Strip(fs[filename]) = <<>>
  THEN [text |-> text, files |-> SaveText(fs, filename, text)]
  ELSE [text |-> TextOrNotProvided(fs[filename]), files |-> fs]

\* The text of a reader node and the file it leaves: with a path the reader's
\* text, which the reader writes to the file; without one the file's text.
ReadOrLoad(given, text, fs, filename) ==
  IF given
  THEN [text |-> text, files |-> SaveText(fs, filename, text)]
  ELSE [text |-> TextOrNotProvided(fs[filename]), files |-> fs]

\* A claims_reader node after which the graph ends.
RunClaimsThenEnd(i) ==
  /\ workflow[i].node = "claims_reader"
  /\ workflow[i].claims_path # "missing"
  /\ workflow' = [workflow EXCEPT ![i].node = "END",
                                  ![i].ran = Append(@, "claims_reader"),
                                  ![i].current_agent = "END"]
  /\ UNCHANGED <<pc, path, document, claims_uploaded, full_text, ret,
                 claims_text, files, upstream, table>>

\* run_claims: claims_reader.run(path), or the text of claims_text.txt.
RunClaims(i) ==
  /\ workflow[i].node = "claims_reader"
  /\ workflow[i].claims_path # "missing"
  /\ \E r \in {ReadOrLoad(workflow[i].claims_path # "",
                          ClaimsCleanText(workflow[i].claims_document),
                          files, "claims_text.txt")} :
       /\ files' = r.files
       /\ workflow' = [workflow EXCEPT ![i].node = "drawing_reader",
                                       ![i].ran = Append(@, "claims_reader"),
                                       ![i].claims_text = r.text,
                                       ![i].current_agent = "drawing_reader"]
  /\ UNCHANGED <<pc, path, document, claims_uploaded, full_text, ret,
                 claims_text, upstream, table>>

\* run_claims, claims_reader.run(path) raises FileNotFoundError.
RunClaimsRaise(i) ==
  /\ workflow[i].node = "claims_reader"
  /\ workflow[i].claims_path = "missing"
  /\ workflow' = [workflow EXCEPT ![i].node = "raised",
                                  ![i].ran = Append(@, "claims_reader")]
  /\ UNCHANGED <<pc, path, document, claims_uploaded, full_text, ret,
                 claims_text, files, upstream, table>>

\* run_drawing: drawing_reader.run(path), or the text of drawings_text.txt.
RunDrawing(i) ==
  /\ workflow[i].node = "drawing_reader"
  /\ workflow[i].drawings_path # "missing"
  /\ \E r \in {ReadOrLoad(workflow[i].drawings_path # "",
                          workflow[i].drawings_document,
                          files, "drawings_text.txt")} :
       /\ files' = r.files
       /\ workflow' = [workflow EXCEPT ![i].node = "END",
                                       ![i].ran = Append(@, "drawing_reader"),
                                       ![i].drawings_text = r.text,
                                       ![i].current_agent = "END"]
  /\ UNCHANGED <<pc, path, document, claims_uploaded, full_text, ret,
                 claims_text, upstream, table>>

\* run_drawing, drawing_reader.run(path) raises FileNotFoundError.
RunDrawingRaise(i) ==
  /\ workflow[i].node = "drawing_reader"
  /\ workflow[i].drawings_path = "missing"
  /\ workflow' = [workflow EXCEPT ![i].node = "raised",
                                  ![i].ran = Append(@, "drawing_reader")]
  /\ UNCHANGED <<pc, path, document, claims_uploaded, full_text, ret,
                 claims_text, files, upstream, table>>

\* The invocations of InitWorkflow have files that exist: no node raises.
NextWorkflow ==
  \E i \in Invocations :
    \/ RunDescriptionClear(i)
    \/ RunDescriptionSplit(i)
    \/ RunClaims(i)
    \/ RunDrawing(i)

SpecWorkflow == InitWorkflow /\ [][NextWorkflow]_vars

NextInvocation ==
  \/ RunDescriptionClear(1)
  \/ RunDescriptionRaise(1)
  \/ RunDescriptionSplit(1)
  \/ RunClaims(1)
  \/ RunClaimsRaise(1)
  \/ RunDrawing(1)
  \/ RunDrawingRaise(1)

SpecInvocation == InitInvocation /\ [][NextInvocation]_vars

\* The nodes but the split of run_description.
NextReader ==
  \/ RunDescriptionClear(1)
  \/ RunDescriptionRaise(1)
  \/ RunClaims(1)
  \/ RunClaimsRaise(1)
  \/ RunDrawing(1)
  \/ RunDrawingRaise(1)

\* workflow.invoke runs the nodes one after the other until END or an
\* exception: weak fairness of every step.  RunDescriptionSplit(1) is
\* enabled exactly when CanRunDescriptionSplit(1) holds and a step of it
\* ends that, so its weak fairness is that CanRunDescriptionSplit(1) does
\* not hold forever.
SpecInvocationLive ==
  /\ SpecInvocation
  /\ WF_vars(NextReader)
  /\ []<>(~CanRunDescriptionSplit(1))

\* ================================================================== claims

\* The call of _split_and_save has returned.
SplitDone == pc = "_split_and_save"

\* The claims header's leftmost match starts at offset p.
LeftmostClaimsHeader(t, p) ==
  /\ ClaimsHeaderAt(t, p) # NoMatch
  /\ \A q \in 0..(p - 1) : ClaimsHeaderAt(t, q) = NoMatch

NoClaimsHeader(t) == \A p \in 0..Len(t) : ClaimsHeaderAt(t, p) = NoMatch

\* The trimmed text before the claims header and from it on.
Prefix == Strip(Slice(full_text, 0, ClaimsSearch(full_text, 0)))
ClaimsTail ==
  Strip(Slice(full_text, ClaimsSearch(full_text, 0), Len(full_text)))
\* The trimmed text after the abstract header of the claims tail.
TailAbstract ==
  Strip(Slice(ClaimsTail, AbstractSearchEnd(ClaimsTail), Len(ClaimsTail)))

\* C1 as stated: with a claims header found, _split_and_save returns the
\* abstract of the claims tail whenever the tail contains an abstract header,
\* and the abstract extracted from the prefix only when the tail contains no
\* abstract header.
C1_TailAbstractWheneverHeader ==
  (SplitDone /\ ~NoClaimsHeader(full_text)) =>
    ret[2] = IF AbstractSearch(ClaimsTail) # NoMatch
             THEN TailAbstract
             ELSE ExtractAbstract(Prefix)[2]

\* C1 amended: with a claims header found, _split_and_save returns the
\* abstract of the claims tail whenever the tail contains an abstract header
\* followed by text that is not blank; otherwise (no abstract header in the
\* tail, or only blank text after it) it returns what the extraction from the
\* prefix gave, an abstract or None.
C1_TailAbstractFirst ==
  (SplitDone /\ ~NoClaimsHeader(full_text)) =>
    ret[2] = IF AbstractSearch(ClaimsTail) # NoMatch /\ TailAbstract # <<>>
             THEN TailAbstract
             ELSE ExtractAbstract(Prefix)[2]

\* C1 witness: an abstract before the claims header and a different one
\* after it; the one after it is returned.
C1_BothAbstracts ==
  /\ SplitDone
  /\ ~NoClaimsHeader(full_text)
  /\ AbstractSearch(ClaimsTail) # NoMatch
  /\ TailAbstract # <<>>
  /\ ExtractAbstract(Prefix)[2] \notin {None, TailAbstract}
  /\ ret[2] = TailAbstract

\* C2: _split_and_save cuts at the start of the leftmost claims header: the
\* description is what the abstract extraction leaves of the trimmed text
\* before that offset, the claims what the abstract stripping leaves of the
\* trimmed text from that offset on; in a text without abstract header the
\* returned description and the saved claims are exactly the two trimmed
\* pieces.
C2_CutAtLeftmostHeader ==
  SplitDone =>
    \A p \in 0..Len(full_text) :
      LeftmostClaimsHeader(full_text, p) =>
        LET before == Strip(Slice(full_text, 0, p))
            from == Strip(Slice(full_text, p, Len(full_text)))
        IN /\ ret[1] = ExtractAbstract(before)[1]
           /\ claims_text = StripAbstractFromClaims(from)[1]
           /\ files["describtion_text.txt"] = ret[1]
           /\ files["claims_text.txt"] = claims_text
           /\ AbstractSearch(full_text) = NoMatch =>
                ret[1] = before /\ claims_text = from

\* C2 witness: "Background text.\n\nClaims\n1. A widget." is split into
\* "Background text." and "Claims\n1. A widget.".
C2_Example ==
  /\ SplitDone
  /\ full_text = <<"w", NL, NL, "claims", NL, "w">>
  /\ ret[1] = <<"w">>
  /\ files["claims_text.txt"] = <<"claims", NL, "w">>

\* C3: without a claims header _split_and_save returns what _extract_abstract
\* gives for the whole trimmed text, computes no claims and leaves the claims
\* file as it was; without an abstract header either, the description is the
\* whole trimmed text and the abstract None; the empty text gives the
\* description "" and None.
C3_NoClaimsHeaderPath ==
  (SplitDone /\ NoClaimsHeader(full_text)) =>
    /\ ret = ExtractAbstract(Strip(full_text))
    /\ claims_text = None
    /\ files["claims_text.txt"] = StaleFiles["claims_text.txt"]
    /\ files["describtion_text.txt"] = ret[1]
    /\ AbstractSearch(Strip(full_text)) = NoMatch =>
         ret = <<Strip(full_text), None>>
    /\ full_text = <<>> => ret = << <<>>, None >>

\* C3 witness: a text without claims header whose abstract is extracted and
\* whose description is not empty.
C3_DegradedWithAbstract ==
  /\ SplitDone
  /\ NoClaimsHeader(full_text)
  /\ ret[2] # None
  /\ ret[1] # <<>>
  /\ files["claims_text.txt"] = StaleFiles["claims_text.txt"]

\* The call of _extract_abstract has returned.
ExtractDone == pc = "_extract_abstract"

\* The abstract header's leftmost match starts at offset p.
LeftmostAbstractHeader(t, p) ==
  /\ AbstractHeaderAt(t, p) # NoMatch
  /\ \A q \in 0..(p - 1) : AbstractHeaderAt(t, q) = NoMatch

NoAbstractHeader(t) == \A p \in 0..Len(t) : AbstractHeaderAt(t, p) = NoMatch

\* C4's rules for the end of an abstract that starts at offset start:
\* (a) the next claims header, (b) the next line that is a section header,
\* (c) the first paragraph break if it is less than 500 characters away,
\* (d) the end of the text.
RuleA(t, start) == {p \in start..Len(t) : ClaimsHeaderAt(t, p) # NoMatch}
RuleB(t, start) == {p \in start..Len(t) : SectionHeaderAt(t, p) # NoMatch}
RuleC(t, start) ==
  LET first == ParaBreakSearch(Slice(t, start, Len(t)))
  IN IF first # NoMatch /\ CharLen(Slice(t, start, start + first)) < ParaLimit
     THEN {start + first} ELSE {}
PriorityEnd(t, start) ==
  IF RuleA(t, start) # {} THEN SetMin(RuleA(t, start))
  ELSE IF RuleB(t, start) # {} THEN SetMin(RuleB(t, start))
  ELSE IF RuleC(t, start) # {} THEN SetMin(RuleC(t, start))
  ELSE Len(t)

\* C4 as stated: the abstract _extract_abstract returns starts at the
\* header's match end and ends at the first applicable of (a) the next claims
\* header, (b) the start of the next line that is exactly a section header,
\* (c) the first paragraph break within 500 characters, (d) the end of the
\* text (None when that span is blank).
C4_EndInPriorityOrder ==
  ExtractDone =>
    \A p \in 0..Len(full_text) :
      LeftmostAbstractHeader(full_text, p) =>
        LET start == AbstractHeaderAt(full_text, p)
            span == Strip(Slice(full_text, start,
                                PriorityEnd(full_text, start)))
        IN ret[2] = IF span = <<>> THEN None ELSE span

\* C5: _extract_abstract returns the text unchanged, with None, when the text
\* has no abstract header and when the span from the header's end to the
\* computed end is blank; it never returns an empty abstract.
C5_NoneKeepsText ==
  ExtractDone =>
    /\ ret[2] # <<>>
    /\ NoAbstractHeader(full_text) => ret = <<full_text, None>>
    /\ \A p \in 0..Len(full_text) :
         LeftmostAbstractHeader(full_text, p) =>
           LET start == AbstractHeaderAt(full_text, p)
               span == Slice(full_text, start, AbstractEnd(full_text, start))
           IN Strip(span) = <<>> => ret = <<full_text, None>>

\* C5 witness: a text with an abstract header whose span is blank, returned
\* with its header still in it.
C5_BlankSpan ==
  /\ ExtractDone
  /\ ~NoAbstractHeader(full_text)
  /\ ret = <<full_text, None>>

\* The tokens of t at the offsets outside [from, to), in their order.
RECURSIVE Outside(_, _, _)
Outside(t, from, to) ==
  IF t = <<>> THEN <<>>
  ELSE IF from <= 0 /\ 0 < to
       THEN Outside(Tail(t), from - 1, to - 1)
       ELSE <<Head(t)>> \o Outside(Tail(t), from - 1, to - 1)

\* C6: when _extract_abstract extracts an abstract, the returned remainder is
\* the trimmed text outside [header match start, abstract end): every token
\* outside that span in its order, none of the span, nothing added.
C6_RemainderExcisesSpan ==
  ExtractDone /\ ret[2] # None =>
    \A p \in 0..Len(full_text) :
      LeftmostAbstractHeader(full_text, p) =>
        LET end == AbstractEnd(full_text, AbstractHeaderAt(full_text, p))
        IN /\ ret[1] = Strip(Outside(full_text, p, end))
           /\ ret[1] = Strip(Slice(full_text, 0, p)
                               \o Slice(full_text, end, Len(full_text)))

\* C6 witness: an abstract extracted from between two pieces of text, both
\* of which are in the remainder.
C6_TextAroundAbstract ==
  /\ ExtractDone
  /\ ret[2] # None
  /\ \E p \in 1..Len(full_text) :
       /\ LeftmostAbstractHeader(full_text, p)
       /\ Strip(Slice(full_text, 0, p)) # <<>>
       /\ Strip(Slice(full_text,
                      AbstractEnd(full_text, AbstractHeaderAt(full_text, p)),
                      Len(full_text))) # <<>>

\* The call of _strip_abstract_from_claims has returned.
StripDone == pc = "_strip_abstract_from_claims"

\* C7: _strip_abstract_from_claims returns, for the leftmost abstract header
\* of the claims text, the trimmed text before the header's match start and
\* the trimmed text after its match end; without a header it returns the
\* claims text unchanged and None.
C7_StripAtFirstHeader ==
  StripDone =>
    /\ NoAbstractHeader(full_text) => ret = <<full_text, None>>
    /\ \A p \in 0..Len(full_text) :
         LeftmostAbstractHeader(full_text, p) =>
           ret = << Strip(Slice(full_text, 0, p)),
                    Strip(Slice(full_text, AbstractHeaderAt(full_text, p),
                                Len(full_text))) >>

\* C7 witness: claims followed by an abstract, both returned not empty.
C7_ClaimsThenAbstract ==
  /\ StripDone
  /\ ~NoAbstractHeader(full_text)
  /\ ret[1] # <<>>
  /\ ret[2] \notin {None, <<>>}

\* The half-open ranges [a, b) of offsets of a text.
Ranges(t) == {r \in (0..Len(t)) \X (0..Len(t)) : r[1] <= r[2]}

\* Two ranges share no offset.
Apart(r, q) == r[2] <= q[1] \/ q[2] <= r[1] \/ r[1] = r[2] \/ q[1] = q[2]

\* An output's text: nothing when the output is None.
TextOf(v) == IF v = None THEN <<>> ELSE v

\* C8: the description, the claims and the abstract _split_and_save produces
\* are copies of pairwise non-overlapping ranges of the text: the claims of
\* one range, the abstract of one range, the description of one range or of
\* two (the text on both sides of an abstract taken out of it), so that no
\* character of the text is in two outputs and none is made up.
C8_OutputsFromDisjointRanges ==
  SplitDone =>
    \E c \in Ranges(full_text) :
      /\ c[2] - c[1] = Len(TextOf(claims_text))
      /\ TextOf(claims_text) = Slice(full_text, c[1], c[2])
      /\ \E a \in Ranges(full_text) :
           /\ a[2] - a[1] = Len(TextOf(ret[2]))
           /\ Apart(a, c)
           /\ TextOf(ret[2]) = Slice(full_text, a[1], a[2])
           /\ \E d \in Ranges(full_text) :
                /\ d[2] - d[1] <= Len(ret[1])
                /\ Apart(d, c) /\ Apart(d, a)
                /\ Slice(ret[1], 0, d[2] - d[1])
                     = Slice(full_text, d[1], d[2])
                /\ \E e \in Ranges(full_text) :
                     /\ d[2] <= e[1]
                     /\ (d[2] - d[1]) + (e[2] - e[1]) = Len(ret[1])
                     /\ Apart(e, c) /\ Apart(e, a)
                     /\ Slice(ret[1], d[2] - d[1], Len(ret[1]))
                          = Slice(full_text, e[1], e[2])

\* C8 witness: a text split into a description, claims and an abstract, none
\* of them empty.
C8_ThreeSections ==
  /\ SplitDone
  /\ ret[1] # <<>>
  /\ claims_text \notin {None, <<>>}
  /\ ret[2] \notin {None, <<>>}

\* The call of _clean_text has returned.
CleanDone == pc = "_clean_text"

\* The lines the line-number loop of _clean_text is given.
LoopLines ==
  SplitLines(HtmlTablesToMarkdown(RemoveHash(RemoveImageLinks(full_text))))

\* C10's rule for one line: a line that is whitespace, a digit run that is a
\* positive multiple of 5, whitespace and a rest loses the digit run and the
\* whitespace after it, and keeps the whitespace before the digits and the
\* rest; any other line is kept as it is.
NumberRemoved(line) ==
  LET b == SkipWs(line, 0)
      e == SkipDigits(line, b)
      r == SkipWs(line, e)
  IN IF e > b /\ r > e /\ IntOf(Slice(line, b, e)) > 0
          /\ IntOf(Slice(line, b, e)) % 5 = 0
     THEN Slice(line, 0, b) \o Slice(line, r, Len(line))
     ELSE line

\* C10 as stated: _clean_text changes a line only if it is optional
\* whitespace, a digit run that is a positive multiple of 5, and whitespace;
\* it then removes the digit run and the whitespace following it and keeps
\* the rest of the line, the whitespace before the digits included.
C10_OnlyNumberRemoved ==
  CleanDone =>
    LET out == SplitLines(ret[1])
    IN /\ Len(out) = Len(LoopLines)
       /\ \A i \in 1..Len(out) : out[i] = NumberRemoved(LoopLines[i])

\* C11 as stated: line-number stripping is idempotent: the line loop of
\* _clean_text applied to the text _clean_text returned gives that text again.
C11_StripIdempotent ==
  CleanDone => StripLineNumbers(ret[1]) = ret[1]

\* The run has returned.
RunDone == pc = "done"

\* C9 as stated: after a run each of the description, the claims and the
\* abstract is a text that is not empty, or absent (None).
C9_NoEmptySlot ==
  RunDone => ret[1] # <<>> /\ claims_text # <<>> /\ ret[2] # <<>>

\* C9 amended: after a run the claims are a text that is not empty, or
\* absent; so is the abstract of a run with claims_uploaded = False, while a
\* run with claims_uploaded = True returns the abstract "" and computes no
\* claims; the description is always a text, and it may be the empty one.
C9_ClaimsAndSplitAbstractNotEmpty ==
  RunDone =>
    /\ ret[1] # None
    /\ claims_text # <<>>
    /\ ~claims_uploaded => ret[2] # <<>>
    /\ claims_uploaded => ret[2] = <<>> /\ claims_text = None

\* C9 witness: a run that splits a document with claims and an abstract and
\* nothing else: the description returned is the empty string.
C9_EmptyDescription ==
  /\ RunDone
  /\ ~claims_uploaded
  /\ ret[1] = <<>>
  /\ claims_text \notin {None, <<>>}
  /\ ret[2] \notin {None, <<>>}

\* The call of _html_tables_to_markdown has returned.
TablesDone == pc = "_html_tables_to_markdown"

\* C12's markdown of a table: a line "| c1 | c2 | ... |" per row with the
\* cells trimmed, and after the first line a line with one "---" per cell of
\* the first row; nothing for a table without rows.
MarkdownLine(cells) ==
  <<"|", SP>> \o JoinWith(cells, <<SP, "|", SP>>) \o <<SP, "|">>
Trimmed(cells) == [i \in 1..Len(cells) |-> Strip(cells[i])]
Markdown(rows) ==
  IF rows = <<>> THEN <<>>
  ELSE JoinLines(
         << MarkdownLine(Trimmed(rows[1])),
            MarkdownLine([i \in 1..Len(rows[1]) |-> <<"---">>]) >>
           \o [i \in 1..(Len(rows) - 1) |->
                 MarkdownLine(Trimmed(rows[i + 1]))])
PieceMarkdown(piece) ==
  IF piece.is_table THEN Markdown(piece.rows) ELSE piece.text

NoTableSpan(t) ==
  \A i, j \in 1..Len(t) : ~(i < j /\ t[i] = "<table>" /\ t[j] = "</table>")

\* The text has no "<tr>" with a "</tr>" after it.
NoRow(t) ==
  \A i, j \in 1..Len(t) : ~(i < j /\ t[i] = "<tr>" /\ t[j] = "</tr>")

\* C13: _html_tables_to_markdown returns a text for every text of table
\* tokens: a text without a table span ("<table>" not closed, "</table>" not
\* opened) is returned as it is, and a table span in which no row is matched
\* is replaced by the empty string.
C13_MalformedTables ==
  (TablesDone /\ table = {}) =>
    /\ NoTableSpan(full_text) => ret[1] = full_text
    /\ \A i, j \in 1..Len(full_text) :
         ( /\ i < j
           /\ full_text[i] = "<table>"
           /\ full_text[j] = "</table>"
           /\ \A k \in 1..(i - 1) : full_text[k] # "<table>"
           /\ \A k \in (i + 1)..(j - 1) : full_text[k] # "</table>"
           /\ NoRow(Slice(full_text, i, j - 1))
           /\ NoTableSpan(Slice(full_text, j, Len(full_text))) )
         => ret[1] = Slice(full_text, 0, i - 1)
                       \o Slice(full_text, j, Len(full_text))

\* C13 witness: a table span without a row has been dropped from the text.
C13_TableWithoutRow ==
  /\ TablesDone
  /\ full_text = <<"w", "<table>", "w", "</table>">>
  /\ ret[1] = <<"w">>

\* The searches of the header patterns have returned.
ClaimsSearchDone == pc = "CLAIMS_HEADER_PATTERN.search"
AbstractSearchDone == pc = "ABSTRACT_HEADER_PATTERN.search"

\* A line without its trailing colon or period, trimmed, and with every run
\* of spaces made one space.
WithoutPunct(line) ==
  IF Strip(line) # <<>> /\ Strip(line)[Len(Strip(line))] \in Punct
  THEN Strip(SubSeq(Strip(line), 1, Len(Strip(line)) - 1))
  ELSE Strip(line)
RECURSIVE OneSpace(_)
OneSpace(t) ==
  IF Len(t) < 2 THEN t
  ELSE IF t[1] = SP /\ t[2] = SP THEN OneSpace(Tail(t))
  ELSE <<t[1]>> \o OneSpace(Tail(t))

\* C14's header phrases.
ClaimsPhrases ==
  { <<"claim">>, <<"claims">>,
    <<"what", SP, "is", SP, "claimed">>,
    <<"what", SP, "is", SP, "claimed", SP, "is">>,
    <<"what", SP, "we", SP, "claim">>,
    <<"what", SP, "we", SP, "claim", SP, "is">>,
    <<"i", SP, "claim">>, <<"we", SP, "claim">> }

\* C14's header line: a phrase with optional whitespace around it and an
\* optional colon or period after it.
IsClaimsHeaderLine(line) == OneSpace(WithoutPunct(line)) \in ClaimsPhrases

\* C14 as stated: the claims-header matcher finds a match exactly when a
\* line of the text consists of one of the header phrases, with optional
\* surrounding whitespace and an optional trailing colon or period.
C14_MatchesHeaderLines ==
  ClaimsSearchDone =>
    ( ret[1] # NoMatch
        <=> \E i \in 1..Len(SplitLines(full_text)) :
              IsClaimsHeaderLine(SplitLines(full_text)[i]) )

\* C15's header line: a line that begins with the word "abstract", alone or
\* followed by more text.
BeginsWithAbstract(line) ==
  /\ Strip(line) # <<>>
  /\ Strip(line)[1] = "abstract"
  /\ Len(Strip(line)) > 1 => Strip(line)[2] \in {SP} \cup Punct

\* C15 as stated: the abstract-header matcher finds a match exactly when a
\* line of the text begins with the word "abstract", whether the word stands
\* alone (with its colon) or is followed by more text on the line.
C15_MatchesAbstractLines ==
  AbstractSearchDone =>
    ( ret[1] # NoMatch
        <=> \E i \in 1..Len(SplitLines(full_text)) :
              BeginsWithAbstract(SplitLines(full_text)[i]) )

\* What pc is after a call of a splitting or cleaning function has returned.
Returned ==
  { "_split_and_save", "_extract_abstract", "_strip_abstract_from_claims",
    "_clean_text", "_html_tables_to_markdown" }

\* C16 as stated: every call of a section-splitting or cleaning function
\* returns a result for every input text; none raises.
C16_EveryCallReturns == pc # "input" => pc \in Returned /\ ret[1] # None

\* C17 as stated: a call of _split_and_save hands description, claims and
\* abstract to its caller as return values, and, having no request to
\* persist them, writes no output file.
C17_SectionsReturnedNoFileWritten ==
  SplitDone => Len(ret) = 3 /\ files = StaleFiles

\* What an invocation that runs alone ends with for the document doc.
Alone(doc) == SplitAndSave(CleanText(doc), ClearOutputFiles(StaleFiles))

\* C18 as stated: however the invocations are interleaved, the description,
\* claims and abstract an invocation ends with are those of its own document.
C18_OwnSections ==
  \A i \in Invocations :
    workflow[i].node = "END" =>
      /\ workflow[i].description_text
           = Alone(workflow[i].document).description_text
      /\ workflow[i].abstract_text = Alone(workflow[i].document).abstract_text
      /\ workflow[i].claims_text
           = TextOrNotProvided(
               Alone(workflow[i].document).files["claims_text.txt"])

\* The extraction step of a run failed.
UpstreamFailed == path \in Supported /\ upstream # "ok"

\* The run has raised.
RunRaised == pc \in {"FileNotFoundError", "ValueError", "Exception"}

\* C19 as stated: when the extraction step fails for an existing file of a
\* supported type, run does not raise; the text that is cleaned and split is
\* the error string, and the run returns it as the description.
C19_FailureIsErrorText ==
  UpstreamFailed =>
    /\ ~RunRaised
    /\ pc \in {"cleaned", "done"} => full_text = ErrorText(upstream)
    /\ RunDone => ret[1] = ErrorText(upstream)

\* C20: a run with claims_uploaded = True that returns has split nothing:
\* the description returned and the content of describtion_text.txt are the
\* whole cleaned text, the abstract returned is "", and claims_text.txt and
\* abstract_text.txt are empty.
C20_UploadedKeepsWholeText ==
  RunDone /\ claims_uploaded =>
    /\ full_text = CleanText(ProcessedText(upstream, document))
    /\ ret = <<full_text, <<>>>>
    /\ files["describtion_text.txt"] = full_text
    /\ files["claims_text.txt"] = <<>>
    /\ files["abstract_text.txt"] = <<>>

\* C20 witness: such a run on a text with text before a claims header and an
\* abstract header.
C20_UploadedWithHeaders ==
  /\ RunDone
  /\ claims_uploaded
  /\ ClaimsSearch(full_text, 0) > 0
  /\ AbstractSearch(full_text) # NoMatch
  /\ ret[1] = full_text

\* The nodes in the order of the graph's edges, and how far current_agent is.
NodeOrder == <<"description_reader", "claims_reader", "drawing_reader">>
Rank(agent) ==
  CASE agent = "description_reader" -> 1
    [] agent = "claims_reader" -> 2
    [] agent = "drawing_reader" -> 3
    [] agent = "END" -> 4
IsPrefix(s, t) == Len(s) <= Len(t) /\ s = SubSeq(t, 1, Len(s))

\* The invocation has ended, at END or with an exception.
Ended(i) == workflow[i].node \in {"END", "raised"}
\* One of the invocation's files does not exist.
FileMissing(i) ==
  "missing" \in {workflow[i].description_path, workflow[i].claims_path,
                 workflow[i].drawings_path}

\* C21: the nodes an invocation has started are a prefix of
\* description_reader, claims_reader, drawing_reader, so each runs at most
\* once and in that order; at END all three have run and current_agent is
\* "END"; an invocation raises only when a node's file is missing;
\* current_agent never moves backward, and after a node raised no node runs;
\* and every invocation ends, at END or with the exception of a node.
C21_NodesOnceInOrder ==
  /\ [](\A i \in DOMAIN workflow :
          /\ IsPrefix(workflow[i].ran, NodeOrder)
          /\ workflow[i].node = "END" =>
                workflow[i].ran = NodeOrder /\ workflow[i].current_agent = "END"
          /\ workflow[i].node = "raised" => FileMissing(i))
  /\ [][\A i \in DOMAIN workflow :
          /\ Rank(workflow'[i].current_agent) >= Rank(workflow[i].current_agent)
          /\ Ended(i) => workflow'[i] = workflow[i]]_vars
  /\ <>(\A i \in DOMAIN workflow : Ended(i))

\* C21 witness: an invocation with a claims file has reached END through the
\* three nodes.
C21_ThreeNodesRan ==
  \E i \in DOMAIN workflow :
    /\ workflow[i].node = "END"
    /\ workflow[i].claims_path = "pdf"
    /\ workflow[i].ran = NodeOrder
    /\ workflow[i].current_agent = "END"

\* The invocation has reached END.
AtEnd(i) == workflow[i].node = "END"

\* C22's rule: the reader's text of the uploaded file when a path is given,
\* else the text left in the file when it is not blank, else "Not provided.".
ThreeWay(file_path, reader_text, file_text) ==
  IF file_path # "" THEN reader_text
  ELSE IF Strip(file_text) # <<>> THEN file_text
  ELSE NotProvided

\* C22: at END claims_text follows the rule from claims_path, the claims
\* reader's cleaned text and the claims_text.txt the description reader
\* left, and with a claims_path claims_text.txt holds the claims reader's
\* text; drawings_text follows the rule from drawings_path, the drawing
\* reader's text and drawings_text.txt.
C22_ThreeWayRule ==
  \A i \in DOMAIN workflow :
    AtEnd(i) =>
      /\ workflow[i].claims_text
           = ThreeWay(workflow[i].claims_path,
                      StripLineNumbers(RemoveHash(workflow[i].claims_document)),
                      Alone(workflow[i].document).files["claims_text.txt"])
      /\ workflow[i].claims_path # "" =>
           files["claims_text.txt"] = workflow[i].claims_text
      /\ workflow[i].drawings_text
           = ThreeWay(workflow[i].drawings_path,
                      workflow[i].drawings_document,
                      Alone(workflow[i].document).files["drawings_text.txt"])
      /\ workflow[i].drawings_path # "" =>
           files["drawings_text.txt"] = workflow[i].drawings_text

\* C22 witness: the description's split wrote the claims "1"; the uploaded
\* claims file's cleaned text "3" is claims_text and replaced them in
\* claims_text.txt.
C22_UploadOverwritesSplit ==
  \E i \in DOMAIN workflow :
    /\ AtEnd(i)
    /\ workflow[i].claims_path = "pdf"
    /\ Alone(workflow[i].document).files["claims_text.txt"]
         = <<"claims", NL, "1">>
    /\ workflow[i].claims_text = <<"3">>
    /\ files["claims_text.txt"] = <<"3">>

\* C26 as stated: the abstract_text field of the workflow state always holds
\* a string, the empty one when the document has no abstract, never None.
C26_AbstractIsString ==
  \A i \in DOMAIN workflow : workflow[i].abstract_text # None

\* The call of extract_sections_with_llm has ended.
LlmEnded == pc # "input"

\* The reply is a JSON object, alone or in the first code block.
ReplyIsObject ==
  /\ upstream = "reply"
  /\ \/ IsObject(full_text)
     \/ \E a \in 0..Len(Strip(full_text)) :
          \E b \in a..Len(Strip(full_text)) :
            /\ a > 0
            /\ Strip(full_text)[a] \in {Fence, JsonFence}
            /\ Strip(full_text)[a] = Fence =>
                 \A k \in 1..Len(Strip(full_text)) :
                   Strip(full_text)[k] # JsonFence
            /\ \A k \in 1..(a - 1) :
                 Strip(full_text)[k] \notin {Strip(full_text)[a], JsonFence}
            /\ \A k \in (a + 1)..b :
                 Strip(full_text)[k] \notin {Fence, JsonFence}
            /\ b = Len(Strip(full_text))
                 \/ Strip(full_text)[b + 1] \in {Fence, JsonFence}
            /\ IsObject(Slice(Strip(full_text), a, b))

\* C23: extract_sections_with_llm raises nothing; it returns three None
\* unless the reply is a JSON object, and then the object's values for
\* description, claims and abstract, None for a missing key or a null.
C23_NoneTripleUnlessObject ==
  LlmEnded =>
    /\ pc = "extract_sections_with_llm"
    /\ Len(ret) = 3
    /\ ~ReplyIsObject => ret = <<None, None, None>>
    /\ ReplyIsObject =>
         \E t \in JsonTexts :
           /\ \E k \in 1..Len(full_text) : full_text[k] = t
           /\ t = JsonSections => ret = << <<"d">>, None, None >>
           /\ t = JsonClaims => ret = << None, <<"c">>, <<"a">> >>
           /\ t \in {JsonSections, JsonClaims}

\* C23 witness: a reply whose code block holds an object without an
\* abstract and with a null: the description and two None are returned.
C23_ObjectInCodeBlock ==
  /\ LlmEnded
  /\ full_text = <<"w", JsonFence, JsonSections, Fence>>
  /\ ret = << <<"d">>, None, None >>

\* The four files are empty.
AllEmpty == \A f \in FileNames : files[f] = <<>>

\* The call has left the step that clears the files.
PathChecked == pc \notin {"run", "cleared"}

\* C24: run raises FileNotFoundError for a path that does not exist and
\* ValueError for an extension it does not handle; no text was extracted and
\* nothing is returned or written, but the four files, which held an earlier
\* run's output, are empty when the error is raised.
C24_PathErrorsAfterClear ==
  /\ pc = "cleared" /\ path \notin Supported => ENABLED RunRaise
  /\ PathChecked /\ path = "missing" => pc = "FileNotFoundError"
  /\ PathChecked /\ path = "unsupported" => pc = "ValueError"
  /\ pc = "FileNotFoundError" => path = "missing"
  /\ PathChecked /\ path \notin Supported =>
       /\ full_text = <<>>
       /\ ret = <<None, None>>
       /\ claims_text = None
       /\ AllEmpty
       /\ files # StaleFiles

\* C24 witness: run has raised FileNotFoundError and the files that held the
\* output of an earlier run are empty.
C24_MissingPathRaisedFilesEmptied ==
  /\ pc = "FileNotFoundError"
  /\ path = "missing"
  /\ AllEmpty

\* C25: when a run with claims_uploaded=False returns, the description,
\* claims and abstract files hold the description, claims and abstract of
\* this call, empty for a section the call did not find, and the drawings
\* file is empty: nothing of what the files held before the call is left.
C25_FilesHoldThisCall ==
  RunDone /\ ~claims_uploaded =>
    /\ files["describtion_text.txt"] = ret[1]
    /\ files["claims_text.txt"] = TextOf(claims_text)
    /\ files["abstract_text.txt"] = TextOf(ret[2])
    /\ files["drawings_text.txt"] = <<>>
    /\ \A f \in FileNames : files[f] # StaleFiles[f]

\* C25 witness: a run that found no claims and no abstract has returned; the
\* claims and abstract files, which it never writes, are empty.
C25_NoSectionsFilesEmpty ==
  /\ RunDone
  /\ ~claims_uploaded
  /\ claims_text = None
  /\ ret[2] = None
  /\ ret[1] # <<>>
  /\ files["claims_text.txt"] = <<>>
  /\ files["abstract_text.txt"] = <<>>

\* The trimmed match of the claims header: the header line.
HeaderLine ==
  Strip(Slice(full_text, ClaimsSearch(full_text, 0),
              ClaimsHeaderAt(full_text, ClaimsSearch(full_text, 0))))

\* C27: when a claims header is found, the claims text _split_and_save
\* saves is not empty and begins with the header line; it is the text from
\* the header on, whole or cut at an abstract header that starts after the
\* header line.
C27_ClaimsBeginWithHeader ==
  (SplitDone /\ ~NoClaimsHeader(full_text)) =>
    /\ claims_text # None
    /\ claims_text # <<>>
    /\ files["claims_text.txt"] = claims_text
    /\ HeaderLine # <<>>
    /\ IsPrefix(HeaderLine, claims_text)
    /\ IsPrefix(claims_text, ClaimsTail)
    /\ claims_text # ClaimsTail =>
         /\ AbstractSearch(ClaimsTail) >= Len(HeaderLine)
         /\ claims_text = Strip(Slice(ClaimsTail, 0, AbstractSearch(ClaimsTail)))

\* C27 witness: an abstract follows the claims header at once; the claims
\* saved are cut down to the header line.
C27_CutDownToHeader ==
  /\ SplitDone
  /\ ~NoClaimsHeader(full_text)
  /\ claims_text # ClaimsTail
  /\ claims_text = HeaderLine
  /\ Truthy(ret[2])

\* The tokens that are not whitespace, and their occurrences in a text.
ContentTokens == {"abstract", "claims", "background", "w", "long"}
Count(t, k) == Cardinality({i \in 1..Len(t) : t[i] = k})

\* The abstract extracted from the text before the claims header, None
\* without a claims header or without an abstract there.
LeadingAbstract ==
  IF NoClaimsHeader(full_text) THEN None ELSE ExtractAbstract(Prefix)[2]

\* The text has an abstract before the claims header and an abstract, a
\* header with text after it, after the claims header.
LeadingAndTrailingAbstract ==
  /\ LeadingAbstract # None
  /\ ~NoAbstractHeader(ClaimsTail)
  /\ TailAbstract # <<>>

\* The body of the leading abstract when there is a trailing one as well.
LostBody == IF LeadingAndTrailingAbstract THEN LeadingAbstract ELSE <<>>

\* The abstract headers the call cut out: the header of an abstract
\* extracted from the description, the header found in the claims tail.
HeaderCut(found) == IF found THEN 1 ELSE 0
HeadersCut ==
  IF NoClaimsHeader(full_text)
  THEN HeaderCut(ExtractAbstract(Strip(full_text))[2] # None)
  ELSE HeaderCut(LeadingAbstract # None)
         + HeaderCut(~NoAbstractHeader(ClaimsTail))

\* The occurrences of token k in the three outputs together.
InOutputs(k) ==
  Count(ret[1], k) + Count(TextOf(claims_text), k) + Count(TextOf(ret[2]), k)

====
